---- MODULE Spec2Model ----
(***************************************************************************)
(* red-plex: synchronisation of tracker collages / bookmarks with Plex     *)
(* collections.  The model follows                                         *)
(*   src/src/infrastructure/services/collection_creator.py  (the sync),    *)
(*   src/red_plex/infrastructure/cache/collage_collection_cache.py,        *)
(*   src/src/infrastructure/cache/bookmarks_collection_cache.py (stores),  *)
(*   src/red_plex/infrastructure/plex/plex_manager.py       (library),     *)
(*   src/src/infrastructure/rest/gazelle/gazelle_api.py     (remote).      *)
(* Checked on their own, each under a specification of its own:            *)
(*   SpecApi    the limiter and the retry of GazelleAPI.api_call,          *)
(*   SpecMatch  get_rating_keys of both PlexManager classes,               *)
(*   SpecDb     src/red_plex/infrastructure/db/collections.py,             *)
(*   SpecScan   src/red_plex/infrastructure/db/site_tags.py and the scan   *)
(*              of src/red_plex/use_case/site_tags/site_tags_use_case.py,  *)
(*   SpecWeb    concurrent syncs started by the web application            *)
(*              (src/red_plex/infrastructure/gui/routes/collages.py),      *)
(*   SpecTags   the tag query and create_collection_from_tags,             *)
(*   SpecPush   the push to the remote collages                            *)
(*              (src/red_plex/infrastructure/cli/utils.py and the web      *)
(*              route),                                                    *)
(*   SpecTok    the extraction of file paths from a torrent group.         *)
(***************************************************************************)
EXTENDS Integers, Sequences, FiniteSets, TLC

(***************************************************************************)
(* Bounds of the exploration.                                              *)
(***************************************************************************)
MaxRuns == 3
MaxEnv == 2
MaxBatch == 2

MaxTime == 6

MaxRequests == 6

MaxClients == 2

MaxDepth == 2

MaxAlbums == 2

MaxPrompts == 2

MaxOps == 3

MaxFaults == 1

MaxScans == 2

MaxResults == 2

MaxWebRuns == 3

MaxWebEnv == 2

MaxTagInserts == 2

MaxTagCalls == 2

MaxPushes == 1

MaxText == 2

MaxTorrents == 2

(***************************************************************************)
(* The environment: remote collages, torrent groups, library albums.       *)
(***************************************************************************)
CollageIds == {1, 2}
GroupIds == {100, 101, 102}
Albums == {11, 12, 13}
CollectionKeys == {2, 3, 4}
\* The membership of the remote lists when the exploration starts.
InitRemote == [c \in CollageIds |-> IF c = 1 THEN {100, 101} ELSE {101, 102}]
InitBookmarks == {100, 101}
Site == "red"
NoKey == 0

\* stop=stop_after_attempt(3)
StopAfterAttempt == 3

\* The normalized, split folder path of an album of the library
\* (os.path.normpath(album.path).split(os.sep)).
AlbumSegments(a) ==
    CASE a = 11 -> <<"", "music", "AlbumA">>
      [] a = 12 -> <<"", "music", "AlbumB">>
      [] OTHER  -> <<"", "other", "AlbumB">>

\* The file paths of a torrent group as get_torrent_group returns them.
GroupFilePaths(g) ==
    CASE g = 100 -> <<"AlbumA", "AlbumZ">>
      [] g = 101 -> <<"AlbumB">>
      [] OTHER  -> <<"AlbumC", "B">>

\* len(path) of the file paths above.
PathLen(p) == IF p = "B" THEN 1 ELSE IF p = "" THEN 0 ELSE 6

\* The name the remote service reports for a collage; an id that is no
\* collage yields the mapper's default name and no torrent groups.
CollageName(c) ==
    CASE c = 1 -> "Collage 1"
      [] c = 2 -> "Collage 2"
      [] OTHER -> "Collage None"

BookmarksName(site) == "RED Bookmarks"

Range(s) == {s[i] : i \in 1..Len(s)}

Min(S) == CHOOSE x \in S : \A y \in S : x <= y

(***************************************************************************)
(* GazelleAPI.api_call: tenacity retries a RequestException up to          *)
(* StopAfterAttempt attempts; the decorator has no reraise=True, so when   *)
(* every attempt failed the caller receives tenacity's RetryError, which   *)
(* is not a requests.exceptions.RequestException.                          *)
(***************************************************************************)
TransportOutcomes == {"ok", "RequestException"}

Transports == [1..StopAfterAttempt -> TransportOutcomes]

\* api_call with reraise=True: the last RequestException reaches the caller.
ApiCallReraise(tr) ==
    IF \E i \in 1..StopAfterAttempt : tr[i] = "ok" THEN "ok"
    ELSE "RequestException"

ApiCall(tr) ==
    IF \E i \in 1..StopAfterAttempt : tr[i] = "ok" THEN "ok" ELSE "RetryError"

\* The number of HTTP attempts one api_call makes on transport behaviour tr.
ApiAttempts(tr) ==
    IF \E i \in 1..StopAfterAttempt : tr[i] = "ok"
    THEN Min({i \in 1..StopAfterAttempt : tr[i] = "ok"})
    ELSE StopAfterAttempt

(***************************************************************************)
(* PlexManager.get_rating_keys                                             *)
(***************************************************************************)
Answers == {"A", "N", "1"}

ValidatePath(p) == ~(PathLen(p) = 0 \/ PathLen(p) = 1)

\* The candidates, in album_data order.
Candidates(p, albums) ==
    SelectSeq(albums, LAMBDA a : p \in Range(AlbumSegments(a)))

GetRatingKeys(p, albums, ans) ==
    IF ~ValidatePath(p) THEN {}
    ELSE LET c == Candidates(p, albums) IN
         IF Len(c) = 0 THEN {}
         ELSE IF Len(c) = 1 THEN {c[1]}
         ELSE IF ans = "A" THEN Range(c)
         ELSE IF ans = "N" THEN {}
         ELSE {c[1]}

\* matched rating keys of one torrent group (the inner loop over file_paths)
GroupRatingKeys(g, albums, ans) ==
    UNION {GetRatingKeys(GroupFilePaths(g)[i], albums, ans) :
              i \in 1..Len(GroupFilePaths(g))}

(***************************************************************************)
(* CollageCollectionCache (CSV): rows are [id, name, site, ext, groups].   *)
(***************************************************************************)
CollageRow(rk, ext, name, groups, site) ==
    [id |-> rk, name |-> name, site |-> site, ext |-> ext, groups |-> groups]

\* The index of the first row a loop over the rows stops at, 0 for none;
\* S holds the indices of the rows that satisfy the loop's test.
FirstIndex(S) == IF S = {} THEN 0 ELSE Min(S)

\* get_collection: the first row whose id is the rating key; <<>> for None
GetCollection(rows, rk) ==
    LET i == FirstIndex({n \in 1..Len(rows) : rows[n].id = rk}) IN
    IF i = 0 THEN <<>> ELSE <<rows[i]>>

\* save_collection: the rows that are written back to the file
SaveCollection(rows, rk, name, site, collageId, groups) ==
    LET i == FirstIndex({n \in 1..Len(rows) : rows[n].ext = rk}) IN
    IF i # 0
    THEN [rows EXCEPT ![i] = [@ EXCEPT !.name = name, !.site = site,
                                        !.ext = collageId, !.groups = groups]]
    ELSE Append(rows, CollageRow(rk, collageId, name, groups, site))

(***************************************************************************)
(* BookmarksCollectionCache (CSV): rows are [id, site, groups].            *)
(***************************************************************************)
BookmarkRow(rk, site, groups) == [id |-> rk, site |-> site, groups |-> groups]

GetBookmark(rows, rk) ==
    LET i == FirstIndex({n \in 1..Len(rows) : rows[n].id = rk}) IN
    IF i = 0 THEN <<>> ELSE <<rows[i]>>

\* save_bookmarks: an existing entry receives the bare id list as its
\* torrent_groups, and writing that row raises AttributeError (int has no
\* attribute id) after the file was truncated and the rows before it were
\* written.  The result is [rows, raised].
SaveBookmarks(rows, rk, site, groups) ==
    LET i == FirstIndex({n \in 1..Len(rows) : rows[n].id = rk}) IN
    IF i # 0
    THEN IF groups # {}
         THEN [rows |-> SubSeq(rows, 1, i - 1), raised |-> TRUE]
         ELSE [rows |-> [rows EXCEPT ![i] = [@ EXCEPT !.site = site,
                                                      !.groups = groups]],
               raised |-> FALSE]
    ELSE [rows |-> Append(rows, BookmarkRow(rk, site, groups)), raised |-> FALSE]

(***************************************************************************)
(* PlexManager collections: a set of [key, name, items].                   *)
(***************************************************************************)
WithName(colls, name) == {c \in colls : c.name = name}

\* get_collection_by_name: the rating key of the collection, NoKey for None
GetCollectionByName(colls, name) ==
    IF WithName(colls, name) = {} THEN NoKey
    ELSE Min({c.key : c \in WithName(colls, name)})

\* create_collection
CreateCollection(colls, key, name, items) ==
    colls \cup {[key |-> key, name |-> name, items |-> items]}

\* add_items_to_collection: the collection is looked up by name again
AddItemsToCollection(colls, name, items) ==
    LET k == GetCollectionByName(colls, name) IN
    {IF c.key = k THEN [c EXCEPT !.items = @ \cup items] ELSE c : c \in colls}

UsedKeys(colls) == {c.key : c \in colls}

\* The ratingKey Plex gives a new collection: the next free key.
NextKey(colls) == Min(CollectionKeys \ UsedKeys(colls))

(***************************************************************************)
(* State.                                                                  *)
(*   remote, remoteBm   membership of the remote collages / bookmark feed  *)
(*   albumData          PlexManager.album_data, the library snapshot       *)
(*   plex               the collections of the Plex library section        *)
(*   collageCsv         rows of collage_collection_cache.csv               *)
(*   bookmarksCsv       rows of bookmarks_collection_cache.csv             *)
(*   run                locals of _create_or_update_collection_from_collage*)
(*   batch              the loop of the calling command                    *)
(*   applied            per collection, the group ids whose albums a sync  *)
(*                      handed to create_collection / add_items (history)  *)
(*   zeroMatch          the <<list, group id>> pairs for which a sync      *)
(*                      found no album in the library (history)            *)
(*   nRuns, nEnv        counters that bound the exploration                *)
(***************************************************************************)
VARIABLES remote, remoteBm, albumData, plex, collageCsv, bookmarksCsv,
          run, batch, applied, zeroMatch, nRuns, nEnv

(***************************************************************************)
(* The state of the components that are checked on their own:              *)
(*   clock     the wall clock, in seconds                                  *)
(*   limiter   per GazelleAPI object, in creation order, the timestamps    *)
(*             held by the bucket of its Limiter                           *)
(*   call      the api_call in progress on the newest GazelleAPI object    *)
(*   sent      every HTTP request made so far: its time and its client     *)
(*             (history)                                                   *)
(*   match     one get_rating_keys call: its arguments, its position and   *)
(*             what it returned                                            *)
(*   db        the sqlite store of the collections and its connection      *)
(*   scan      the site-tag index and one scan over it                     *)
(*   web       the store, the library and the tasks of the web server      *)
(*   tagc      the tagged mappings and one create_collection_from_tags     *)
(*   push      the upstream push of collections to their collages          *)
(*   extract   a torrent group response and the file paths extracted       *)
(***************************************************************************)
VARIABLES clock, limiter, call, sent, match, db, scan, web, tagc, push,
          extract

apiVars == <<clock, limiter, call, sent>>

auxVars == <<apiVars, match, db, scan, web, tagc, push, extract>>

vars == <<remote, remoteBm, albumData, plex, collageCsv, bookmarksCsv,
          run, batch, applied, zeroMatch, nRuns, nEnv, auxVars>>

envVars == <<remote, remoteBm, albumData>>

IdleRun ==
    [pc |-> "idle", bm |-> FALSE, cid |-> 0, force |-> FALSE,
     name |-> "", remoteIds |-> {}, existing |-> NoKey, cached |-> {},
     new |-> {}, todo |-> {}, processed |-> {}, matched |-> {},
     rk |-> NoKey, groups |-> {},
     status |-> "", raised |-> FALSE,
     memFail |-> FALSE, grpFail |-> FALSE, commitFail |-> FALSE,
     confirm |-> "none", fetched |-> {}, mut |-> 0, wr |-> 0,
     expect |-> {},
     plex0 |-> {}, collage0 |-> <<>>, bookmarks0 |-> <<>>]

\* The locals at the entry of the sync of one list, with the collections
\* and the cache files as they are at that moment.
NewRun(bm, cid, force) ==
    [IdleRun EXCEPT !.pc = "fetch", !.bm = bm, !.cid = cid, !.force = force,
                    !.plex0 = plex, !.collage0 = collageCsv,
                    !.bookmarks0 = bookmarksCsv]

IdleBatch ==
    [kind |-> "none", bm |-> FALSE, todo |-> <<>>, n |-> 0,
     outcomes |-> <<>>, ended |-> FALSE]

\* The end of a run: a terminal status, raised when an exception leaves
\* the sync.
Finish(r, status, raised) ==
    [r EXCEPT !.pc = "done", !.status = status, !.raised = raised]

(***************************************************************************)
(* Steps of _create_or_update_collection_from_collage.                     *)
(***************************************************************************)
\* The membership fetch goes on with the lookup although it failed.
MembershipFetchedIgnoresFailure(r, outcome, name, ids) ==
    IF outcome = "ok"
    THEN [r EXCEPT !.pc = "lookup", !.name = name, !.remoteIds = ids]
    ELSE [r EXCEPT !.pc = "lookup", !.name = name, !.remoteIds = ids,
                   !.memFail = TRUE]

\* lines 71-82: get_bookmarks / get_collage.  A RequestException is caught
\* and the sync returns; any other exception leaves the sync.
MembershipFetched(r, outcome, name, ids) ==
    IF outcome = "ok"
    THEN [r EXCEPT !.pc = "lookup", !.name = name, !.remoteIds = ids]
    ELSE IF outcome = "RequestException"
    THEN Finish([r EXCEPT !.memFail = TRUE], "FAILED", FALSE)
    ELSE Finish([r EXCEPT !.memFail = TRUE], "FAILED", TRUE)

\* lines 110-114: new_group_ids and the "No new items" return
ComputeNew(r) ==
    LET new == r.remoteIds \ r.cached IN
    IF new = {} THEN Finish(r, "UP_TO_DATE", FALSE)
    ELSE [r EXCEPT !.pc = "groups", !.new = new, !.todo = new]

\* The lookup goes on without asking.
LookedUpNoConfirm(r, existing, cached) ==
    ComputeNew([r EXCEPT !.existing = existing, !.cached = cached])

\* lines 84-109 up to the confirmation
LookedUp(r, existing, cached) ==
    LET r1 == [r EXCEPT !.existing = existing, !.cached = cached] IN
    IF existing # NoKey /\ ~r.force
    THEN [r1 EXCEPT !.pc = "confirm"]
    ELSE ComputeNew(r1)

\* lines 99-106: the answer to click.confirm
Confirmed(r, response) ==
    IF ~response
    THEN Finish([r EXCEPT !.confirm = "no"], "SKIPPED", FALSE)
    ELSE ComputeNew([r EXCEPT !.confirm = "yes"])

\* lines 120-138: one iteration of the loop over new_group_ids
GroupFetched(r, g, outcome, keys) ==
    LET rest == r.todo \ {g}
        next == IF rest = {} THEN "apply" ELSE "groups" IN
    IF outcome = "ok"
    THEN [r EXCEPT !.todo = rest, !.pc = next,
                   !.fetched = @ \cup {g},
                   !.processed = IF keys # {} THEN @ \cup {g} ELSE @,
                   !.matched = @ \cup keys]
    ELSE IF outcome = "RequestException"
    THEN [r EXCEPT !.todo = rest, !.pc = next, !.grpFail = TRUE]
    ELSE Finish([r EXCEPT !.grpFail = TRUE], "FAILED", TRUE)

\* Every collection is taken to have matches.
HasMatchesAlways(r) == TRUE

\* line 140: if matched_rating_keys
HasMatches(r) == r.matched # {}

\* Only the ids of this run are handed to the cache.
UpdatedGroupIdsDropsCached(r) == r.processed

\* lines 149 and 168/172: the ids handed to the cache
UpdatedGroupIds(r) ==
    IF r.existing # NoKey THEN r.cached \cup r.processed ELSE r.processed

(***************************************************************************)
(* The loops of the calling commands.                                      *)
(*   "convert"  create_collections_from_collages (services, lines 29-45)   *)
(*   "service"  update_collections_from_collages (services, lines 47-64)   *)
(*   "cli"      update_collections_from_collages (cli.py, lines 420-438)   *)
(***************************************************************************)
BatchKinds == {"convert", "service", "cli"}

\* force_update of the syncs of a loop
ForceOf(kind) == kind # "convert"

\* Whether the loop goes on to its next item after a sync that raised:
\* the two loops of the services module catch Exception around each sync,
\* the loop of cli.py has no handler.
LoopContinues(kind, raised) == ~raised \/ kind \in {"convert", "service"}

\* The collage_id argument the update loops pass for a cached collection:
\* the services loop passes collage.id, the loop of cli.py
\* collage.external_id; a bookmark row has no external id.
UpdateArg(kind, bm, row) ==
    IF kind = "service" THEN row.id
    ELSE IF bm THEN 0 ELSE row.ext

\* What a loop knows of a finished sync.
Outcome(r) ==
    [cid |-> r.cid, status |-> r.status, raised |-> r.raised,
     force |-> r.force, grpFail |-> r.grpFail, commitFail |-> r.commitFail,
     allResolved |-> r.new # {} /\ r.processed = r.new,
     rk |-> r.rk, expect |-> r.expect]

(***************************************************************************)
(* GazelleAPI: the limiter of one object and the api_call loop.            *)
(* Limiter(rate_limit, raise_when_fail=False).try_acquire returns False    *)
(* when the bucket already holds Limit items stamped within the last       *)
(* Interval; its items are stamped with the time of the acquisition.       *)
(***************************************************************************)
\* The rate_limit argument of the constructor, in calls and seconds.
Limit == 2

Interval == 2

WaitFixed == 2

InWindow(bucket, t) == {i \in 1..Len(bucket) : bucket[i] >= t - Interval}

TryAcquireAlways(bucket, t) == TRUE

TryAcquire(bucket, t) == Cardinality(InWindow(bucket, t)) < Limit

GetRetryAfter(bucket, t) ==
    IF Len(bucket) > 0
    THEN LET index == IF Limit - 1 > 0 THEN Limit - 1 ELSE 0 IN
         IF index < Len(bucket)
         THEN LET wait_time == (bucket[Len(bucket) - index] + Interval) - t IN
              IF wait_time < 0 THEN 0 ELSE wait_time
         ELSE Interval
    ELSE 0

\* What requests.get / raise_for_status do on one attempt.
ResponseKinds == {"ok", "ConnectionError", "HTTPError"}

\* retry_if_exception_type(requests.exceptions.RequestException):
\* ConnectionError and the HTTPError of raise_for_status are both
\* subclasses of RequestException.
IsRequestException(o) == o \in {"ConnectionError", "HTTPError"}

IdleCall ==
    [pc |-> "idle", attempt |-> 0, outcomes |-> <<>>, times |-> <<>>,
     wakeAt |-> 0, result |-> "none"]

ApiAtRest ==
    /\ clock = 0
    /\ limiter = <<>>
    /\ call = IdleCall
    /\ sent = <<>>

SyncAtRest ==
    /\ remote = InitRemote
    /\ remoteBm = InitBookmarks
    /\ albumData = <<11>>
    /\ plex = {}
    /\ collageCsv = <<>>
    /\ bookmarksCsv = <<>>
    /\ applied = [k \in CollectionKeys |-> {}]
    /\ zeroMatch = {}
    /\ run = IdleRun
    /\ batch = IdleBatch
    /\ nRuns = 0
    /\ nEnv = 0

syncVars == <<remote, remoteBm, albumData, plex, collageCsv, bookmarksCsv,
              run, batch, applied, zeroMatch, nRuns, nEnv>>

IdleMatch ==
    [pc |-> "idle", token |-> <<>>, albums |-> <<>>, force |-> FALSE,
     keys |-> <<>>, result |-> <<>>, asked |-> 0,
     playlist |-> "none"]

MatchAtRest == match = IdleMatch

\* The tables of the store: the rating keys of collage_collections and of
\* bookmark_collections, and the rows of collection_torrent_groups.
EmptyTables == [collage |-> {}, bookmark |-> {}, groups |-> {}]

IdleOp ==
    [name |-> "none", kind |-> "none", rk |-> 0, gids |-> {}, todo |-> <<>>,
     pc |-> "idle"]

DbKeys == {2, 3}

DbGroupIds == {100, 101}

GroupIdsFor(t, rk) == {g \in DbGroupIds : <<rk, g>> \in t.groups}

\* What the store holds about one rating key.
GroupingState(t, rk) ==
    [collage |-> rk \in t.collage, bookmark |-> rk \in t.bookmark,
     gids |-> GroupIdsFor(t, rk)]

\* A new database file and its connection: disk is what is committed,
\* work what the connection sees; complete[rk] collects the states of rk
\* that were committed at the start or are the whole effect of an
\* operation (history).
NewDb ==
    [disk |-> EmptyTables, work |-> EmptyTables, op |-> IdleOp,
     before |-> EmptyTables,
     complete |-> [rk \in DbKeys |-> {GroupingState(EmptyTables, rk)}],
     nOps |-> 0, nFaults |-> 0]

DbAtRest == db = NewDb

\* The albums table (album id -> added_at), the rows <<rating_key,
\* group_id, site>> of rating_key_group_id_mappings, and one run of
\* scan_albums_for_site_tags.
IdleScan ==
    [albums |-> <<>>, mappings |-> {}, site |-> "none", listed |-> <<>>,
     atCall |-> {}, todo |-> <<>>, pc |-> "idle", results |-> 0,
     tries |-> 0, nScans |-> 0]

ScanAtRest == scan = IdleScan

\* The web application: the collection store (rows of collage_collections
\* with their group ids), the collections of the library with the next
\* rating key Plex hands out, the remote collages, and the background
\* tasks started by the collage conversion route.
WebTasks == {1, 2}

IdleWeb ==
    [remote |-> [c \in CollageIds |-> {100}], plex |-> {}, nextKey |-> 2,
     store |-> {}, task |-> [t \in WebTasks |-> IdleRun],
     committed |-> {}, nRuns |-> 0, nEnv |-> 0]

WebAtRest == web = IdleWeb

\* The site tag index with the tags of each mapping (rows [rk, gid, site,
\* tags]), the collection of the requested name in the library (exists,
\* items), and one call of create_collection_from_tags.
NoCollection == [exists |-> FALSE, items |-> {}]

IdleTagCall ==
    [pc |-> "idle", tags |-> <<>>, site |-> "none", matching |-> {},
     atCall |-> {}, coll0 |-> NoCollection, albums |-> {},
     result |-> "none"]

IdleTagc ==
    [mappings |-> {}, coll |-> NoCollection, call |-> IdleTagCall,
     nInserts |-> 0, nCalls |-> 0]

TagcAtRest == tagc = IdleTagc

\* The upstream push: per collage the items of its library collection,
\* the membership of the remote collage and whether the user owns it, the
\* mappings <<rating key, group id, site>>, the loop of the push in
\* progress, and every add_to_collage call made (history).
IdlePush ==
    [members |-> <<{}, {}>>, remote |-> <<{}, {}>>, owned |-> {},
     mappings |-> {}, path |-> "none", todo |-> <<>>, data |-> <<>>,
     total |-> 0, success |-> 0, returned |-> "none", writes |-> <<>>,
     nPushes |-> 0]

PushAtRest == push = IdlePush

\* One torrent group response (its torrents) and the file paths one of
\* the two extraction functions returned for it.
IdleTok == [torrents |-> <<>>, fn |-> "none", result |-> <<>>]

TokAtRest == extract = IdleTok

notApi == <<syncVars, match, db, scan, web, tagc, push, extract>>

\* GazelleAPI(site): a new object with a Limiter of its own.
NewClient ==
    /\ call.pc \in {"idle", "done"}
    /\ Len(limiter) < MaxClients
    /\ limiter' = Append(limiter, <<>>)
    /\ UNCHANGED <<clock, call, sent, notApi>>

\* The caller enters api_call on the newest object.
ApiStart ==
    /\ call.pc \in {"idle", "done"}
    /\ Len(limiter) > 0
    /\ Len(sent) < MaxRequests
    /\ call' = [IdleCall EXCEPT !.pc = "acquire", !.attempt = 1]
    /\ UNCHANGED <<clock, limiter, sent, notApi>>

\* The attempt after response o: the value is returned, tenacity waits
\* before the next attempt, or after the last attempt raises RetryError.
AfterAttempt(c, o, t) ==
    LET d == [c EXCEPT !.outcomes = Append(@, o), !.times = Append(@, t)] IN
    IF ~IsRequestException(o)
    THEN [d EXCEPT !.pc = "done", !.result = "json"]
    ELSE IF c.attempt < StopAfterAttempt
    THEN [d EXCEPT !.pc = "wait", !.wakeAt = t + WaitFixed]
    ELSE [d EXCEPT !.pc = "done", !.result = "RetryError"]

\* One pass of the while loop of api_call.
ApiAcquire ==
    /\ call.pc = "acquire"
    /\ LET c == Len(limiter) IN
       IF TryAcquire(limiter[c], clock)
       THEN /\ Len(sent) < MaxRequests
            /\ limiter' = [limiter EXCEPT ![c] = Append(@, clock)]
            /\ sent' = Append(sent, [t |-> clock, client |-> c])
            /\ \E o \in ResponseKinds : call' = AfterAttempt(call, o, clock)
       ELSE /\ call' = [call EXCEPT
                          !.pc = "sleep",
                          !.wakeAt = clock + GetRetryAfter(limiter[c], clock)]
            /\ UNCHANGED <<limiter, sent>>
    /\ UNCHANGED <<clock, notApi>>

\* time.sleep of the loop, or the wait of tenacity, is over.
ApiWake ==
    /\ call.pc \in {"sleep", "wait"}
    /\ clock >= call.wakeAt
    /\ call' = [call EXCEPT !.pc = "acquire",
                            !.attempt = IF call.pc = "wait" THEN @ + 1 ELSE @]
    /\ UNCHANGED <<clock, limiter, sent, notApi>>

Tick ==
    /\ clock < MaxTime
    /\ clock' = clock + 1
    /\ UNCHANGED <<limiter, call, sent, notApi>>

InitApi ==
    /\ SyncAtRest
    /\ TokAtRest
    /\ PushAtRest
    /\ TagcAtRest
    /\ WebAtRest
    /\ MatchAtRest
    /\ DbAtRest
    /\ ScanAtRest
    /\ clock = 0
    /\ limiter = <<<<>>>>
    /\ call = IdleCall
    /\ sent = <<>>

NextApi ==
    \/ NewClient
    \/ ApiStart
    \/ ApiAcquire
    \/ ApiWake
    \/ Tick

SpecApi == InitApi /\ [][NextApi]_vars

(***************************************************************************)
(* PlexManager.get_rating_keys on paths spelled out: a name is a sequence  *)
(* of characters, a stored path <<s1, s2>> is the string "/s1/s2".         *)
(***************************************************************************)
SegmentNames == {<<"a">>, <<"a", "b">>, <<"a", "b", "a">>}

\* "//" and a trailing "/" give an empty segment, "/./" a dot segment
RawSegments == SegmentNames \cup {<<>>, <<".">>}

RawPaths == UNION {[1..n -> RawSegments] : n \in 1..MaxDepth}

Tokens == {<<>>, <<"a">>, <<"a", "b">>, <<"b", "a">>, <<"b", "b">>}

\* album_data: the albums of the library, their ids in order
Snapshots ==
    UNION {[1..n -> RawPaths] : n \in 1..MaxAlbums}

\* os.path.normpath
Normpath(raw) == SelectSeq(raw, LAMBDA seg : seg # <<>> /\ seg # <<".">>)

\* os.path.normpath(album.path).split(os.sep)
FolderParts(raw) ==
    IF Normpath(raw) = <<>> THEN <<<<>>, <<>>>> ELSE <<<<>>>> \o Normpath(raw)

ValidToken(tok) == ~(Len(tok) = 0 \/ Len(tok) = 1)

Ids(n) == [i \in 1..n |-> i]

\* rating_keys: the ids of the albums one of whose parts is the token
HasPart(tok, raw) == tok \in Range(FolderParts(raw))

MatchingKeys(tok, albums) ==
    SelectSeq(Ids(Len(albums)), LAMBDA i : HasPart(tok, albums[i]))

\* What click.prompt may return.
Choices == Answers \cup {"2", "x"}

ChoiceIndex(choice) == IF choice = "1" THEN 1 ELSE IF choice = "2" THEN 2 ELSE 0

ValidChoice(choice, keys) ==
    \/ choice \in {"A", "N"}
    \/ ChoiceIndex(choice) >= 1 /\ ChoiceIndex(choice) <= Len(keys)

Chosen(choice, keys) ==
    IF choice = "A" THEN keys
    ELSE IF choice = "N" THEN <<>>
    ELSE <<keys[ChoiceIndex(choice)]>>

\* plex_playlist_creator: the folder path as one string, and `path in
\* folder_path` on strings
RECURSIVE FolderPath(_)
FolderPath(raw) ==
    IF raw = <<>> THEN <<>> ELSE <<"/">> \o Head(raw) \o FolderPath(Tail(raw))

IsSubstring(tok, str) ==
    \E i \in 0..(Len(str) - Len(tok)) : SubSeq(str, i + 1, i + Len(tok)) = tok

PlaylistRatingKeys(tok, albums) ==
    SelectSeq(Ids(Len(albums)),
              LAMBDA i : IsSubstring(tok, FolderPath(albums[i])))

notMatch == <<syncVars, apiVars, db, scan, web, tagc, push, extract>>

\* collection_creator: get_rating_keys(path) of red_plex
GetRatingKeysCall ==
    /\ match.pc = "ready"
    /\ LET keys == MatchingKeys(match.token, match.albums) IN
       IF ~ValidToken(match.token)
       THEN match' = [match EXCEPT !.pc = "returned"]
       ELSE IF Len(keys) <= 1
       THEN match' = [match EXCEPT !.pc = "returned", !.keys = keys,
                                   !.result = keys]
       ELSE match' = [match EXCEPT !.pc = "prompt", !.keys = keys]
    /\ UNCHANGED notMatch

\* click.prompt returns: a valid choice ends the loop
PromptAnswer ==
    /\ match.pc = "prompt"
    /\ \E choice \in Choices :
          IF ValidChoice(choice, match.keys)
          THEN match' = [match EXCEPT !.pc = "returned",
                                      !.result = Chosen(choice, match.keys)]
          ELSE /\ match.asked < MaxPrompts
               /\ match' = [match EXCEPT !.asked = @ + 1]
    /\ UNCHANGED notMatch

\* playlist_creator: get_rating_keys(path) of plex_playlist_creator
PlaylistGetRatingKeys ==
    /\ match.pc # "idle"
    /\ match.playlist = "none"
    /\ match' = [match EXCEPT
                   !.playlist = PlaylistRatingKeys(match.token, match.albums)]
    /\ UNCHANGED notMatch

InitMatch ==
    /\ SyncAtRest
    /\ TokAtRest
    /\ PushAtRest
    /\ TagcAtRest
    /\ WebAtRest
    /\ ApiAtRest
    /\ DbAtRest
    /\ ScanAtRest
    /\ \E tok \in Tokens, albums \in Snapshots, force \in BOOLEAN :
          match = [IdleMatch EXCEPT !.pc = "ready", !.token = tok,
                                    !.albums = albums, !.force = force]

NextMatch ==
    \/ GetRatingKeysCall
    \/ PromptAnswer
    \/ PlaylistGetRatingKeys

SpecMatch == InitMatch /\ [][NextMatch]_vars

(***************************************************************************)
(* CollectionDatabaseManager on one sqlite3 connection.  A statement that  *)
(* changes a table opens a transaction if none is open; conn.commit()      *)
(* makes the changes of the connection durable; nothing in the class       *)
(* rolls back.                                                             *)
(***************************************************************************)
Kinds == {"collage", "bookmark"}

Other(kind) == IF kind = "collage" THEN "bookmark" ELSE "collage"

Stmt(s, kind, rk, gid) == [s |-> s, kind |-> kind, rk |-> rk, gid |-> gid]

KeysOf(t, kind) == IF kind = "collage" THEN t.collage ELSE t.bookmark

WithKeys(t, kind, keys) ==
    IF kind = "collage" THEN [t EXCEPT !.collage = keys]
    ELSE [t EXCEPT !.bookmark = keys]

\* DELETE FROM collection_torrent_groups WHERE rating_key = ? deleting nothing
DeleteGroupsKeepsRows(t, rk) == t

\* DELETE FROM collection_torrent_groups WHERE rating_key = ?
DeleteGroups(t, rk) ==
    [t EXCEPT !.groups = {row \in @ : row[1] # rk}]

\* DELETE FROM collection_torrent_groups without the WHERE clause
DeleteNotInDeletesAll(t, kind) == [t EXCEPT !.groups = {}]

\* DELETE FROM collection_torrent_groups
\* WHERE rating_key NOT IN (SELECT rating_key FROM <kind>_collections)
DeleteNotIn(t, kind) ==
    [t EXCEPT !.groups = {row \in @ : row[1] \in KeysOf(t, kind)}]

\* One SQL statement on the tables the connection sees.
Exec(st, t) ==
    IF st.s = "replace" THEN WithKeys(t, st.kind, KeysOf(t, st.kind) \cup {st.rk})
    ELSE IF st.s = "delgroups" THEN DeleteGroups(t, st.rk)
    ELSE IF st.s = "insert" THEN [t EXCEPT !.groups = @ \cup {<<st.rk, st.gid>>}]
    ELSE IF st.s = "delrow" THEN WithKeys(t, st.kind, KeysOf(t, st.kind) \ {st.rk})
    ELSE IF st.s = "delall" THEN WithKeys(t, st.kind, {})
    ELSE DeleteNotIn(t, st.kind)

RECURSIVE ExecAll(_, _)
ExecAll(todo, t) ==
    IF todo = <<>> THEN t ELSE ExecAll(Tail(todo), Exec(Head(todo), t))

RECURSIVE Inserts(_, _)
Inserts(rk, gids) ==
    IF gids = {} THEN <<>>
    ELSE <<Stmt("insert", "none", rk, Min(gids))>>
            \o Inserts(rk, gids \ {Min(gids)})

\* The statements of each method, before its conn.commit().
UpsertStatements(kind, rk, gids) ==
    <<Stmt("replace", kind, rk, 0), Stmt("delgroups", "none", rk, 0)>>
       \o Inserts(rk, gids)

DeleteStatements(kind, rk) ==
    <<Stmt("delrow", kind, rk, 0), Stmt("delgroups", "none", rk, 0)>>

ResetStatements(kind) ==
    <<Stmt("delall", kind, 0, 0), Stmt("delnotin", Other(kind), 0, 0)>>

\* get_collage_collection / get_bookmark_collection: None, or the group
\* ids of _get_torrent_group_ids_for
GetCollectionIds(t, kind, rk) ==
    IF rk \in KeysOf(t, kind) THEN GroupIdsFor(t, rk) ELSE {-1}

notDb == <<syncVars, apiVars, match, scan, web, tagc, push, extract>>

\* A method is entered: its statements are still to run.  touched are the
\* rating keys it is about.
Enter(name, kind, rk, gids, todo, touched) ==
    /\ db.op.pc \in {"idle", "returned", "raised"}
    /\ db.nOps < MaxOps
    /\ db' = [db EXCEPT
                !.op = [name |-> name, kind |-> kind, rk |-> rk,
                        gids |-> gids, todo |-> todo, pc |-> "running"],
                !.before = db.work,
                !.complete = [k \in DbKeys |->
                                 IF k \in touched
                                 THEN @[k] \cup
                                      {GroupingState(ExecAll(todo, db.work), k)}
                                 ELSE @[k]],
                !.nOps = @ + 1]
    /\ UNCHANGED notDb

InsertOrUpdateCollageCollection ==
    \E rk \in DbKeys, gids \in SUBSET DbGroupIds :
        Enter("upsert", "collage", rk, gids,
              UpsertStatements("collage", rk, gids), {rk})

InsertOrUpdateBookmarkCollection ==
    \E rk \in DbKeys, gids \in SUBSET DbGroupIds :
        Enter("upsert", "bookmark", rk, gids,
              UpsertStatements("bookmark", rk, gids), {rk})

DeleteCollageCollection ==
    \E rk \in DbKeys :
        Enter("delete", "collage", rk, {}, DeleteStatements("collage", rk),
              {rk})

DeleteBookmarkCollection ==
    \E rk \in DbKeys :
        Enter("delete", "bookmark", rk, {}, DeleteStatements("bookmark", rk),
              {rk})

ResetCollageCollections ==
    Enter("reset", "collage", 0, {}, ResetStatements("collage"),
          db.work.collage)

ResetBookmarkCollections ==
    Enter("reset", "bookmark", 0, {}, ResetStatements("bookmark"),
          db.work.bookmark)

\* conn.execute of the next statement
ExecStatement ==
    /\ db.op.pc = "running"
    /\ db.op.todo # <<>>
    /\ db' = [db EXCEPT !.work = Exec(Head(db.op.todo), db.work),
                        !.op.todo = Tail(db.op.todo)]
    /\ UNCHANGED notDb

\* conn.commit()
Commit ==
    /\ db.op.pc = "running"
    /\ db.op.todo = <<>>
    /\ db' = [db EXCEPT !.disk = db.work, !.op.pc = "returned"]
    /\ UNCHANGED notDb

\* The next statement, or the commit, raises sqlite3.Error: the method is
\* left by the exception, the connection and its transaction stay.
StatementRaises ==
    /\ db.op.pc = "running"
    /\ db.nFaults < MaxFaults
    /\ db' = [db EXCEPT !.op.pc = "raised", !.nFaults = @ + 1]
    /\ UNCHANGED notDb

\* The process dies: what was not committed is lost, the next process
\* opens the file again.
Crash ==
    /\ db.op.pc = "running"
    /\ db.nFaults < MaxFaults
    /\ db' = [db EXCEPT !.work = db.disk, !.op.pc = "idle",
                        !.nFaults = @ + 1]
    /\ UNCHANGED notDb

InitDb ==
    /\ SyncAtRest
    /\ TokAtRest
    /\ PushAtRest
    /\ TagcAtRest
    /\ WebAtRest
    /\ ApiAtRest
    /\ MatchAtRest
    /\ ScanAtRest
    /\ db = NewDb

NextDb ==
    \/ InsertOrUpdateCollageCollection
    \/ InsertOrUpdateBookmarkCollection
    \/ DeleteCollageCollection
    \/ DeleteBookmarkCollection
    \/ ResetCollageCollections
    \/ ResetBookmarkCollections
    \/ ExecStatement
    \/ Commit
    \/ StatementRaises
    \/ Crash

SpecDb == InitDb /\ [][NextDb]_vars

(***************************************************************************)
(* SiteTagDatabaseManager.get_unscanned_albums and the scan that uses it.  *)
(***************************************************************************)
Sites == {"red", "ops"}

AddedAt == {1, 2}

\* The library snapshots: albums 1..n, each with its added_at.
Libraries == UNION {[1..n -> AddedAt] : n \in 1..MaxAlbums + 1}

\* SELECT a.album_id FROM albums a LEFT JOIN rating_key_group_id_mappings
\* stm ON a.album_id = stm.rating_key WHERE stm.rating_key IS NULL
Unmapped(albums, mappings) ==
    {a \in DOMAIN albums : ~\E m \in mappings : m[1] = a}

NoRepeats(seq) == \A i, j \in 1..Len(seq) : seq[i] = seq[j] => i = j

\* ORDER BY a.added_at DESC
OrderedByAddedAtDesc(seq, albums) ==
    \A i \in 1..Len(seq) - 1 : albums[seq[i]] >= albums[seq[i + 1]]

\* The lists the query may return: rows of equal added_at in any order.
UnscannedLists(albums, mappings) ==
    LET ids == Unmapped(albums, mappings) IN
    {seq \in [1..Cardinality(ids) -> ids] :
        NoRepeats(seq) /\ OrderedByAddedAtDesc(seq, albums)}

\* INSERT OR IGNORE INTO rating_key_group_id_mappings
InsertSiteTagMapping(mappings, rk, gid, site) ==
    mappings \cup {<<rk, gid, site>>}

\* groupId of the i-th result of the search
ResultGroupId(i) == 99 + i

notScan == <<syncVars, apiVars, match, db, web, tagc, push, extract>>

\* The end of the loop body: the next album, or the end of the scan.
AfterAlbum(sc) ==
    [sc EXCEPT !.todo = Tail(@), !.tries = 0, !.results = 0,
               !.pc = IF Tail(sc.todo) = <<>> THEN "done" ELSE "loop"]

\* scan_albums_for_site_tags: the unscanned albums are listed.
ScanAlbumsForSiteTags ==
    /\ scan.pc \in {"ready", "done"}
    /\ scan.nScans < MaxScans
    /\ \E site \in Sites, list \in UnscannedLists(scan.albums, scan.mappings) :
          scan' = [scan EXCEPT !.site = site, !.listed = list,
                               !.atCall = scan.mappings, !.todo = list,
                               !.results = 0, !.tries = 0,
                               !.nScans = @ + 1,
                               !.pc = IF list = <<>> THEN "done" ELSE "loop"]
    /\ UNCHANGED notScan

\* One album: the search by file name and _process_search_results.
ProcessAlbum ==
    /\ scan.pc = "loop"
    /\ \E n \in 0..MaxResults :
          IF n = 0 THEN scan' = AfterAlbum(scan)
          ELSE IF n = 1
          THEN scan' = AfterAlbum(
                  [scan EXCEPT !.mappings =
                      InsertSiteTagMapping(@, Head(scan.todo),
                                           ResultGroupId(1), scan.site)])
          ELSE scan' = [scan EXCEPT !.pc = "prompt", !.results = n]
    /\ UNCHANGED notScan

\* click.prompt of _process_search_results returns.
SearchChoice ==
    /\ scan.pc = "prompt"
    /\ \/ scan' = AfterAlbum(scan)
       \/ \E i \in 1..scan.results :
             scan' = AfterAlbum(
                [scan EXCEPT !.mappings =
                    InsertSiteTagMapping(@, Head(scan.todo),
                                         ResultGroupId(i), scan.site)])
       \/ /\ scan.tries < MaxPrompts
          /\ scan' = [scan EXCEPT !.tries = @ + 1]
    /\ UNCHANGED notScan

InitScan ==
    /\ SyncAtRest
    /\ TokAtRest
    /\ PushAtRest
    /\ TagcAtRest
    /\ WebAtRest
    /\ ApiAtRest
    /\ MatchAtRest
    /\ DbAtRest
    /\ \E albums \in Libraries :
          scan = [IdleScan EXCEPT !.albums = albums, !.pc = "ready"]

NextScan ==
    \/ ScanAlbumsForSiteTags
    \/ ProcessAlbum
    \/ SearchChoice

SpecScan == InitScan /\ [][NextScan]_vars

(***************************************************************************)
(* Initial states: a fresh installation, or one on which                   *)
(* `convert collection 1` ran when the library held album 11 and           *)
(* `convert collection 2` after it gained album 12.                        *)
(***************************************************************************)
SyncedPlex ==
    {[key |-> 2, name |-> CollageName(1), items |-> {11}],
     [key |-> 3, name |-> CollageName(2), items |-> {12}]}

SyncedCsv ==
    <<CollageRow(2, 1, CollageName(1), {100}, Site),
      CollageRow(3, 2, CollageName(2), {101}, Site)>>

SyncedApplied == [k \in CollectionKeys |->
                     IF k = 2 THEN {100} ELSE IF k = 3 THEN {101} ELSE {}]

SyncedZeroMatch == {<<1, 101>>, <<2, 102>>}

Init ==
    /\ remote = InitRemote
    /\ remoteBm = InitBookmarks
    /\ \E synced \in BOOLEAN :
          /\ albumData = IF synced THEN <<11, 12>> ELSE <<11>>
          /\ plex = IF synced THEN SyncedPlex ELSE {}
          /\ collageCsv = IF synced THEN SyncedCsv ELSE <<>>
          /\ applied = IF synced THEN SyncedApplied
                       ELSE [k \in CollectionKeys |-> {}]
          /\ zeroMatch = IF synced THEN SyncedZeroMatch ELSE {}
    /\ bookmarksCsv = <<>>
    /\ run = IdleRun
    /\ batch = IdleBatch
    /\ nRuns = 0
    /\ nEnv = 0
    /\ ApiAtRest
    /\ PushAtRest
    /\ TokAtRest
    /\ WebAtRest
    /\ TagcAtRest
    /\ MatchAtRest
    /\ DbAtRest
    /\ ScanAtRest

(***************************************************************************)
(* Environment: the remote lists and the library change between commands.  *)
(***************************************************************************)
EnvReady == batch.kind = "none" /\ nEnv < MaxEnv

RemoteAdd ==
    /\ EnvReady
    /\ \E c \in CollageIds, g \in GroupIds :
          /\ g \notin remote[c]
          /\ remote' = [remote EXCEPT ![c] = @ \cup {g}]
    /\ nEnv' = nEnv + 1
    /\ UNCHANGED <<remoteBm, albumData, plex, collageCsv, bookmarksCsv,
                   run, batch, applied, zeroMatch, nRuns>>
    /\ UNCHANGED auxVars

RemoteRemove ==
    /\ EnvReady
    /\ \E c \in CollageIds, g \in GroupIds :
          /\ g \in remote[c]
          /\ remote' = [remote EXCEPT ![c] = @ \ {g}]
    /\ nEnv' = nEnv + 1
    /\ UNCHANGED <<remoteBm, albumData, plex, collageCsv, bookmarksCsv,
                   run, batch, applied, zeroMatch, nRuns>>
    /\ UNCHANGED auxVars

BookmarkChange ==
    /\ EnvReady
    /\ \E g \in GroupIds :
          remoteBm' = IF g \in remoteBm THEN remoteBm \ {g}
                      ELSE remoteBm \cup {g}
    /\ nEnv' = nEnv + 1
    /\ UNCHANGED <<remote, albumData, plex, collageCsv, bookmarksCsv,
                   run, batch, applied, zeroMatch, nRuns>>
    /\ UNCHANGED auxVars

\* populate_album_cache: album_data.extend(new_albums)
LibraryGain ==
    /\ EnvReady
    /\ \E a \in Albums \ Range(albumData) : albumData' = Append(albumData, a)
    /\ nEnv' = nEnv + 1
    /\ UNCHANGED <<remote, remoteBm, plex, collageCsv, bookmarksCsv,
                   run, batch, applied, zeroMatch, nRuns>>
    /\ UNCHANGED auxVars

(***************************************************************************)
(* Commands.                                                               *)
(***************************************************************************)
StartBatch(kind, bm, items) ==
    /\ batch.kind = "none"
    /\ items # <<>>
    /\ nRuns + Len(items) <= MaxRuns
    /\ batch' = [kind |-> kind, bm |-> bm, todo |-> Tail(items),
                 n |-> Len(items), outcomes |-> <<>>, ended |-> FALSE]
    /\ run' = NewRun(bm, Head(items), ForceOf(kind))
    /\ nRuns' = nRuns + 1
    /\ UNCHANGED <<envVars, plex, collageCsv, bookmarksCsv, applied, zeroMatch,
                   nEnv>>
    /\ UNCHANGED auxVars

\* create_collections_from_collages(site, collage_ids, fetch_bookmarks):
\* with fetch_bookmarks every item of collage_ids syncs the bookmark feed.
StartConvert ==
    \E n \in 1..MaxBatch :
       \/ \E ids \in [1..n -> CollageIds] : StartBatch("convert", FALSE, ids)
       \/ StartBatch("convert", TRUE, [i \in 1..n |-> 0])

\* collections update / bookmarks update of the services module
StartUpdateService ==
    \E bm \in BOOLEAN :
        LET rows == IF bm THEN bookmarksCsv ELSE collageCsv IN
        StartBatch("service", bm,
                   [i \in 1..Len(rows) |-> UpdateArg("service", bm, rows[i])])

\* collections update / bookmarks update of cli.py
StartUpdateCli ==
    \E bm \in BOOLEAN :
        LET rows == IF bm THEN bookmarksCsv ELSE collageCsv IN
        StartBatch("cli", bm,
                   [i \in 1..Len(rows) |-> UpdateArg("cli", bm, rows[i])])

\* The end of one iteration of the loop: the entry of the next sync, or
\* the end of the loop.
NextItem ==
    /\ run.pc = "done"
    /\ LET outs == Append(batch.outcomes, Outcome(run)) IN
       IF LoopContinues(batch.kind, run.raised) /\ batch.todo # <<>>
       THEN /\ batch' = [batch EXCEPT !.todo = Tail(@), !.outcomes = outs]
            /\ run' = NewRun(batch.bm, Head(batch.todo), ForceOf(batch.kind))
            /\ nRuns' = nRuns + 1
       ELSE /\ batch' = [batch EXCEPT !.outcomes = outs, !.ended = TRUE]
            /\ run' = IdleRun
            /\ nRuns' = nRuns
    /\ UNCHANGED <<envVars, plex, collageCsv, bookmarksCsv, applied, zeroMatch,
                   nEnv>>
    /\ UNCHANGED auxVars

\* The command returns to the shell.
CommandReturns ==
    /\ batch.ended
    /\ batch' = IdleBatch
    /\ UNCHANGED <<envVars, plex, collageCsv, bookmarksCsv, run, applied,
                   zeroMatch, nRuns, nEnv>>
    /\ UNCHANGED auxVars

(***************************************************************************)
(* The sync, one action per interaction with a collaborator.               *)
(***************************************************************************)
SyncFetchMembership ==
    /\ run.pc = "fetch"
    /\ \E tr \in Transports :
          run' = MembershipFetched(run, ApiCall(tr),
                    IF run.bm THEN BookmarksName(Site) ELSE CollageName(run.cid),
                    IF run.bm THEN remoteBm
                    ELSE IF run.cid \in CollageIds THEN remote[run.cid] ELSE {})
    /\ UNCHANGED <<envVars, plex, collageCsv, bookmarksCsv, batch, applied,
                   zeroMatch, nRuns, nEnv>>
    /\ UNCHANGED auxVars

\* lines 86-95 and 109: the group ids the cache file rows hold for the
\* collection rk, the empty set when it has no entry
StoredGroupIds(rows, bm, rk) ==
    LET row == IF bm THEN GetBookmark(rows, rk) ELSE GetCollection(rows, rk) IN
    IF rk = NoKey \/ row = <<>> THEN {} ELSE row[1].groups

\* The cache file a sync of a bookmark feed / of a collage works on.
Store(bm) == IF bm THEN bookmarksCsv ELSE collageCsv

SyncLookup ==
    /\ run.pc = "lookup"
    /\ LET existing == GetCollectionByName(plex, run.name) IN
       run' = LookedUp(run, existing,
                       StoredGroupIds(Store(run.bm), run.bm, existing))
    /\ UNCHANGED <<envVars, plex, collageCsv, bookmarksCsv, batch, applied,
                   zeroMatch, nRuns, nEnv>>
    /\ UNCHANGED auxVars

SyncConfirm ==
    /\ run.pc = "confirm"
    /\ \E response \in BOOLEAN : run' = Confirmed(run, response)
    /\ UNCHANGED <<envVars, plex, collageCsv, bookmarksCsv, batch, applied,
                   zeroMatch, nRuns, nEnv>>
    /\ UNCHANGED auxVars

SyncFetchGroup ==
    /\ run.pc = "groups"
    /\ \E g \in run.todo, tr \in Transports, ans \in Answers :
          run' = GroupFetched(run, g, ApiCall(tr),
                              GroupRatingKeys(g, albumData, ans))
    /\ UNCHANGED <<envVars, plex, collageCsv, bookmarksCsv, batch, applied,
                   zeroMatch, nRuns, nEnv>>
    /\ UNCHANGED auxVars

\* The list a run syncs: the collage id, 0 for the bookmark feed.
ListId(r) == IF r.bm THEN 0 ELSE r.cid

\* lines 140-147, 160-163, 175-177; the loop over new_group_ids has ended
SyncApply ==
    /\ run.pc = "apply"
    /\ IF ~HasMatches(run)
       THEN /\ run' = Finish(run, "NO_MATCH", FALSE)
            /\ UNCHANGED <<plex, applied>>
       ELSE IF run.existing # NoKey
       THEN /\ plex' = AddItemsToCollection(plex, run.name, run.matched)
            /\ run' = [run EXCEPT !.pc = "commit", !.rk = run.existing,
                                  !.groups = UpdatedGroupIds(run),
                                  !.mut = @ + 1]
            /\ applied' = [applied EXCEPT ![run.existing] =
                                              @ \cup run.processed]
       ELSE LET k == NextKey(plex) IN
            /\ plex' = CreateCollection(plex, k, run.name, run.matched)
            /\ run' = [run EXCEPT !.pc = "commit", !.rk = k,
                                  !.groups = UpdatedGroupIds(run),
                                  !.mut = @ + 1]
            /\ applied' = [applied EXCEPT ![k] = @ \cup run.processed]
    /\ zeroMatch' = zeroMatch \cup
                       {<<ListId(run), g>> : g \in run.fetched \ run.processed}
    /\ UNCHANGED <<envVars, collageCsv, bookmarksCsv, batch, nRuns, nEnv>>
    /\ UNCHANGED auxVars

\* An I/O error of the cache file: before the file is opened for writing
\* nothing changed; after it only the rows written so far remain.  An I/O
\* error is an event of the environment and counts as one.
IoOutcomes == {"ok", "read_error", "write_error"}

CommitStatus(r) == IF r.existing # NoKey THEN "UPDATED" ELSE "CREATED"

\* lines 148-159, 165-174: the call of save_bookmarks / save_collection
\* and what it leaves in the file when nothing else goes wrong
Saved(r) ==
    IF r.bm
    THEN SaveBookmarks(bookmarksCsv, r.rk, Site, r.groups)
    ELSE [rows |-> SaveCollection(collageCsv, r.rk, r.name, Site, r.cid,
                                  r.groups),
          raised |-> FALSE]

\* The contents of the file after the call, under I/O outcome io.
FileAfter(io, old, new) ==
    IF io = "ok" THEN {new}
    ELSE IF io = "read_error" THEN {old}
    ELSE {SubSeq(new, 1, n) : n \in 0..(Len(new) - 1)}

\* What the cache would hold for the collection had the commit succeeded.
Expected(r) ==
    IF Saved(r).raised THEN r.groups
    ELSE StoredGroupIds(Saved(r).rows, r.bm, r.rk)

SyncCommit ==
    /\ run.pc = "commit"
    /\ \E io \in IoOutcomes :
       LET old == Store(run.bm) IN
       /\ io # "ok" => nEnv < MaxEnv
       /\ nEnv' = IF io = "ok" THEN nEnv ELSE nEnv + 1
       /\ \E rows \in FileAfter(io, old, Saved(run).rows) :
             /\ IF run.bm
                THEN bookmarksCsv' = rows /\ UNCHANGED collageCsv
                ELSE collageCsv' = rows /\ UNCHANGED bookmarksCsv
             /\ run' = IF io = "ok" /\ ~Saved(run).raised
                       THEN Finish([run EXCEPT !.wr = @ + 1],
                                   CommitStatus(run), FALSE)
                       ELSE Finish([run EXCEPT !.wr = IF rows = old THEN @
                                                      ELSE @ + 1,
                                               !.commitFail = TRUE,
                                               !.expect = Expected(run)],
                                   "FAILED", TRUE)
    /\ UNCHANGED <<envVars, plex, batch, applied, zeroMatch, nRuns>>
    /\ UNCHANGED auxVars

Next ==
    \/ RemoteAdd
    \/ RemoteRemove
    \/ BookmarkChange
    \/ LibraryGain
    \/ StartConvert
    \/ StartUpdateService
    \/ StartUpdateCli
    \/ NextItem
    \/ CommandReturns
    \/ SyncFetchMembership
    \/ SyncLookup
    \/ SyncConfirm
    \/ SyncFetchGroup
    \/ SyncApply
    \/ SyncCommit

Spec == Init /\ [][Next]_vars

(***************************************************************************)
(* The collage conversion of the web application.  Every request starts a  *)
(* background task that opens a store connection of its own and runs the   *)
(* sync of a collage; the tasks share the store, the library and the       *)
(* remote service.  A write of the store is one committed transaction.     *)
(***************************************************************************)
notWeb == <<syncVars, apiVars, match, db, scan, tagc, push, extract>>

\* album_data of the library the tasks work on
WebAlbums == <<11, 12>>

\* get_collage_collection: the group ids stored under rating key rk
WebStoredIds(store, rk) == UNION {r.groups : r \in {x \in store : x.id = rk}}

\* insert_or_update_collage_collection: INSERT OR REPLACE on the rating
\* key, then the group ids of that rating key are replaced.
InsertOrReplace(store, row) == {r \in store : r.id # row.id} \cup {row}

WebTask(t, r) == web' = [web EXCEPT !.task[t] = r]

\* socketio.start_background_task(process_collages) for one collage id
WebStart(t) ==
    /\ web.task[t].pc \in {"idle", "done"}
    /\ web.nRuns < MaxWebRuns
    /\ \E c \in CollageIds :
          web' = [web EXCEPT !.task[t] = [IdleRun EXCEPT !.pc = "fetch",
                                                         !.cid = c],
                             !.nRuns = @ + 1]
    /\ UNCHANGED notWeb

WebFetchMembership(t) ==
    /\ web.task[t].pc = "fetch"
    /\ \E tr \in Transports :
          WebTask(t, MembershipFetched(web.task[t], ApiCall(tr),
                                       CollageName(web.task[t].cid),
                                       web.remote[web.task[t].cid]))
    /\ UNCHANGED notWeb

\* The lookup of the collection and of its stored ids; web_confirm
\* answers True without asking.
WebLookup(t) ==
    /\ web.task[t].pc = "lookup"
    /\ LET existing == GetCollectionByName(web.plex, web.task[t].name)
           cached == IF existing = NoKey THEN {}
                     ELSE WebStoredIds(web.store, existing)
           r == LookedUp(web.task[t], existing, cached) IN
       WebTask(t, IF r.pc = "confirm" THEN Confirmed(r, TRUE) ELSE r)
    /\ UNCHANGED notWeb

WebFetchGroup(t) ==
    /\ web.task[t].pc = "groups"
    /\ \E g \in web.task[t].todo, tr \in Transports :
          WebTask(t, GroupFetched(web.task[t], g, ApiCall(tr),
                                  GroupRatingKeys(g, WebAlbums, "1")))
    /\ UNCHANGED notWeb

\* create_collection / add_items_to_collection; the latter looks the
\* collection up by name again and plexapi raises NotFound when it is gone.
WebApply(t) ==
    /\ web.task[t].pc = "apply"
    /\ LET r == web.task[t] IN
       IF ~HasMatches(r)
       THEN WebTask(t, Finish(r, "NO_MATCH", FALSE))
       ELSE IF r.existing # NoKey
       THEN IF GetCollectionByName(web.plex, r.name) = NoKey
            THEN WebTask(t, Finish(r, "FAILED", TRUE))
            ELSE web' = [web EXCEPT
                           !.plex = AddItemsToCollection(@, r.name, r.matched),
                           !.task[t] = [r EXCEPT !.pc = "commit",
                                                 !.rk = r.existing,
                                                 !.groups = UpdatedGroupIds(r),
                                                 !.mut = @ + 1]]
       ELSE web' = [web EXCEPT
                      !.plex = CreateCollection(@, web.nextKey, r.name,
                                                r.matched),
                      !.nextKey = @ + 1,
                      !.task[t] = [r EXCEPT !.pc = "commit",
                                            !.rk = web.nextKey,
                                            !.groups = UpdatedGroupIds(r),
                                            !.mut = @ + 1]]
    /\ UNCHANGED notWeb

\* The save of the collection with the ids of this run; committed collects
\* the <<rating key, group id>> pairs any run has committed (history).
WebCommit(t) ==
    /\ web.task[t].pc = "commit"
    /\ LET r == web.task[t] IN
       web' = [web EXCEPT
                 !.store = InsertOrReplace(@, CollageRow(r.rk, r.cid, r.name,
                                                         r.groups, Site)),
                 !.committed = @ \cup {<<r.rk, g>> : g \in r.groups},
                 !.task[t] = Finish([r EXCEPT !.wr = @ + 1],
                                    CommitStatus(r), FALSE)]
    /\ UNCHANGED notWeb

\* A torrent group is added to a collage of the remote service.
WebRemoteAdd ==
    /\ web.nEnv < MaxWebEnv
    /\ \E c \in CollageIds :
          \E g \in GroupIds \ web.remote[c] :
             web' = [web EXCEPT !.remote[c] = @ \cup {g}, !.nEnv = @ + 1]
    /\ UNCHANGED notWeb

\* The user deletes a collection in the library.
WebDeleteCollection ==
    /\ web.nEnv < MaxWebEnv
    /\ \E c \in web.plex :
          web' = [web EXCEPT !.plex = @ \ {c}, !.nEnv = @ + 1]
    /\ UNCHANGED notWeb

InitWeb ==
    /\ SyncAtRest
    /\ TokAtRest
    /\ PushAtRest
    /\ ApiAtRest
    /\ MatchAtRest
    /\ DbAtRest
    /\ ScanAtRest
    /\ TagcAtRest
    /\ web = IdleWeb

NextWeb ==
    \/ \E t \in WebTasks : WebStart(t)
    \/ \E t \in WebTasks : WebFetchMembership(t)
    \/ \E t \in WebTasks : WebLookup(t)
    \/ \E t \in WebTasks : WebFetchGroup(t)
    \/ \E t \in WebTasks : WebApply(t)
    \/ \E t \in WebTasks : WebCommit(t)
    \/ WebRemoteAdd
    \/ WebDeleteCollection

SpecWeb == InitWeb /\ [][NextWeb]_vars

(***************************************************************************)
(* The site tag index with tags and create_collection_from_tags.           *)
(***************************************************************************)
notTagc == <<syncVars, apiVars, match, db, scan, web, push, extract>>

TagNames == {"rock", "jazz"}

\* The requested tags: a list, as the caller passes it.
TagLists == UNION {[1..n -> TagNames] : n \in 0..2}

\* The rating keys mappings are made for, and those of them the library
\* section can fetch.
TagKeys == {11, 13}

TagLib == {11, 12}

TagGroupIds == {100, 101}

\* The collection of the requested name before the call.
InitCollections ==
    {NoCollection, [exists |-> TRUE, items |-> {12}],
     [exists |-> TRUE, items |-> {11, 12}]}

\* insert_site_tag_mapping: the mapping (rating key, group id, site) is
\* inserted if new and its tags are replaced by the ones passed.
InsertTagMapping(rows, rk, gid, site, tags) ==
    {r \in rows : ~(r.rk = rk /\ r.gid = gid /\ r.site = site)}
       \cup {[rk |-> rk, gid |-> gid, site |-> site, tags |-> tags]}

\* The tags among the requested ones that the mappings of rk carry.
TagsFound(rows, rk, tags) ==
    {n \in Range(tags) : \E r \in rows : r.rk = rk /\ n \in r.tags}

\* get_rating_keys_by_tags: GROUP BY rating_key HAVING COUNT(DISTINCT
\* tag_name) = len(tags); the query names no site.
GetRatingKeysByTags(rows, tags) ==
    IF tags = <<>> THEN {}
    ELSE {rk \in {r.rk : r \in rows} :
             Cardinality(TagsFound(rows, rk, tags)) = Len(tags)}

TagCall(c) == tagc' = [tagc EXCEPT !.call = c]

\* _create_site_tag_mapping of a scan
TagsInsert ==
    /\ tagc.call.pc \in {"idle", "done"}
    /\ tagc.nInserts < MaxTagInserts
    /\ \E rk \in TagKeys, gid \in TagGroupIds, site \in Sites,
          tags \in SUBSET TagNames :
          tagc' = [tagc EXCEPT
                     !.mappings = InsertTagMapping(@, rk, gid, site, tags),
                     !.nInserts = @ + 1]
    /\ UNCHANGED notTagc

\* lines 184-194: the query and the return when nothing matches
TagsStart ==
    /\ tagc.call.pc \in {"idle", "done"}
    /\ tagc.nCalls < MaxTagCalls
    /\ \E tags \in TagLists, site \in Sites :
          LET keys == GetRatingKeysByTags(tagc.mappings, tags)
              c == [IdleTagCall EXCEPT !.tags = tags, !.site = site,
                                       !.matching = keys,
                                       !.atCall = tagc.mappings,
                                       !.coll0 = tagc.coll] IN
          tagc' = [tagc EXCEPT
                     !.call = IF keys = {}
                              THEN [c EXCEPT !.pc = "done", !.result = "False"]
                              ELSE [c EXCEPT !.pc = "clear"],
                     !.nCalls = @ + 1]
    /\ UNCHANGED notTagc

\* lines 198-213: the lookup of the collection and the removal of its
\* items, one removeItems call per item; a call that raises ends the
\* function with False and leaves the items not yet removed.
TagsClear ==
    /\ tagc.call.pc = "clear"
    /\ IF ~tagc.coll.exists
       THEN TagCall([tagc.call EXCEPT !.pc = "fetch"])
       ELSE \/ tagc' = [tagc EXCEPT !.coll.items = {},
                                    !.call.pc = "fetch"]
            \/ \E left \in SUBSET tagc.coll.items :
                  /\ left # {}
                  /\ tagc' = [tagc EXCEPT !.coll.items = left,
                                          !.call.pc = "done",
                                          !.call.result = "False"]
    /\ UNCHANGED notTagc

\* lines 215-229: fetchItem per rating key, a key that cannot be fetched
\* is skipped; False when no album is left
TagsFetch ==
    /\ tagc.call.pc = "fetch"
    /\ LET albums == tagc.call.matching \cap TagLib IN
       TagCall(IF albums = {}
               THEN [tagc.call EXCEPT !.pc = "done", !.result = "False"]
               ELSE [tagc.call EXCEPT !.pc = "write", !.albums = albums])
    /\ UNCHANGED notTagc

\* lines 231-242: addItems / createCollection, or the exception handler
TagsWrite ==
    /\ tagc.call.pc = "write"
    /\ \/ tagc' = [tagc EXCEPT
                     !.coll = [exists |-> TRUE,
                               items |-> tagc.coll.items \cup tagc.call.albums],
                     !.call.pc = "done", !.call.result = "True"]
       \/ TagCall([tagc.call EXCEPT !.pc = "done", !.result = "False"])
    /\ UNCHANGED notTagc

InitTags ==
    /\ SyncAtRest
    /\ TokAtRest
    /\ PushAtRest
    /\ ApiAtRest
    /\ MatchAtRest
    /\ DbAtRest
    /\ ScanAtRest
    /\ WebAtRest
    /\ \E c \in InitCollections : tagc = [IdleTagc EXCEPT !.coll = c]

NextTags ==
    \/ TagsInsert
    \/ TagsStart
    \/ TagsClear
    \/ TagsFetch
    \/ TagsWrite

SpecTags == InitTags /\ [][NextTags]_vars

(***************************************************************************)
(* The push of local collections to their remote collages: the command     *)
(* line loop push_collections_to_upstream and the confirm_sync request of  *)
(* the web application.  Collage c is stored for the library collection    *)
(* with rating key c + 1 and site "red".                                   *)
(***************************************************************************)
notPush == <<syncVars, apiVars, match, db, scan, web, tagc, extract>>

PushCollages == {1, 2}

PushGroupIds == {100, 101, 102}

\* The mappings a scan may have made.
PushMappings == {<<11, 100, "red">>, <<12, 101, "red">>, <<12, 102, "ops">>}

PushMembers == {{}, {11}, {11, 12}}

PushRemotes == {{}, {100}}

\* get_group_ids_by_rating_keys: WHERE rating_key IN (...) AND site = ?
GetGroupIdsByRatingKeys(mappings, keys, site) ==
    {m[2] : m \in {x \in mappings : x[1] \in keys /\ x[3] = site}}

\* The members of a collection that have no mapping for the site.
UnmappedMembers(mappings, keys, site) ==
    {k \in keys : GetGroupIdsByRatingKeys(mappings, {k}, site) = {}}

\* What the request of confirm_sync carries: per selected collection the
\* group ids to add.
AlbumsData ==
    UNION {[1..n -> PushCollages \X (SUBSET {100, 102})] : n \in 1..2}

\* One add_to_collage call and what the push had established before it.
WriteRecord(path, c, ids, user, owner, fetched, fetchedIds) ==
    [path |-> path, cid |-> c, ids |-> ids, user |-> user, owner |-> owner,
     fetched |-> fetched, fetchedIds |-> fetchedIds,
     members |-> push.members[c],
     mapped |-> GetGroupIdsByRatingKeys(push.mappings, push.members[c], Site),
     unmapped |-> UnmappedMembers(push.mappings, push.members[c], Site)]

\* add_to_collage answers success and the collage gains the ids, or fails.
AddToCollage(p, rec, ok) ==
    [p EXCEPT !.writes = Append(@, rec),
              !.remote[rec.cid] = IF ok THEN @ \cup rec.ids ELSE @,
              !.success = IF ok /\ rec.path = "cli" THEN @ + 1 ELSE @]

\* collections push: the loop is entered with the stored collections
StartCliPush ==
    /\ push.path = "none"
    /\ push.nPushes < MaxPushes
    /\ \E todo \in {<<1>>, <<2>>, <<1, 2>>, <<2, 1>>} :
          push' = [push EXCEPT !.path = "cli", !.todo = todo,
                               !.total = Len(todo), !.success = 0,
                               !.returned = "none", !.nPushes = @ + 1]
    /\ UNCHANGED notPush

\* One iteration of the loop of push_collections_to_upstream: userInfo is
\* what get_user_info returns, collagesOk whether get_user_collages
\* returns a list, found whether the library has the collection, fetchOk
\* whether get_collage returns the collage, addOk the answer of
\* add_to_collage.
CliPushNext ==
    /\ push.path = "cli"
    /\ push.todo # <<>>
    /\ \E userInfo \in {"none", "no id", "ok"},
          collagesOk, found, fetchOk, addOk \in BOOLEAN :
          LET c == Head(push.todo)
              rest == [push EXCEPT !.todo = Tail(@)]
              keys == push.members[c]
              groupIds == GetGroupIdsByRatingKeys(push.mappings, keys, Site)
              missing == groupIds \ push.remote[c] IN
          push' =
             IF userInfo # "ok" \/ ~collagesOk \/ c \notin push.owned \/ ~found
             THEN rest
             ELSE IF keys = {}
             THEN [rest EXCEPT !.success = @ + 1]
             ELSE IF groupIds = {} \/ ~fetchOk
             THEN rest
             ELSE IF missing = {}
             THEN [rest EXCEPT !.success = @ + 1]
             ELSE AddToCollage(rest,
                               WriteRecord("cli", c, missing, TRUE, TRUE, TRUE,
                                           push.remote[c]),
                               addOk)
    /\ UNCHANGED notPush

\* return success_count == total_count
CliPushReturns ==
    /\ push.path = "cli"
    /\ push.todo = <<>>
    /\ push' = [push EXCEPT !.path = "none",
                            !.returned = IF push.success = push.total
                                         THEN "True" ELSE "False"]
    /\ UNCHANGED notPush

\* action confirm_sync: the selection is parsed and the background task
\* is started
StartGuiSync ==
    /\ push.path = "none"
    /\ push.nPushes < MaxPushes
    /\ \E data \in AlbumsData :
          push' = [push EXCEPT !.path = "gui", !.data = data,
                               !.returned = "none", !.nPushes = @ + 1]
    /\ UNCHANGED notPush

\* One iteration of the loop of process_upstream_sync.
GuiSyncNext ==
    /\ push.path = "gui"
    /\ push.data # <<>>
    /\ \E addOk \in BOOLEAN :
          LET c == Head(push.data)[1]
              ids == Head(push.data)[2]
              rest == [push EXCEPT !.data = Tail(@)] IN
          push' = AddToCollage(rest,
                               WriteRecord("gui", c, ids, FALSE, FALSE, FALSE,
                                           {}),
                               addOk)
    /\ UNCHANGED notPush

GuiSyncEnds ==
    /\ push.path = "gui"
    /\ push.data = <<>>
    /\ push' = [push EXCEPT !.path = "none"]
    /\ UNCHANGED notPush

InitPush ==
    /\ SyncAtRest
    /\ TokAtRest
    /\ ApiAtRest
    /\ MatchAtRest
    /\ DbAtRest
    /\ ScanAtRest
    /\ WebAtRest
    /\ TagcAtRest
    /\ \E mem \in [1..2 -> PushMembers], rem \in [1..2 -> PushRemotes],
          own \in SUBSET PushCollages, maps \in SUBSET PushMappings :
          push = [IdlePush EXCEPT !.members = mem, !.remote = rem,
                                  !.owned = own, !.mappings = maps]

NextPush ==
    \/ StartCliPush
    \/ CliPushNext
    \/ CliPushReturns
    \/ StartGuiSync
    \/ GuiSyncNext
    \/ GuiSyncEnds

SpecPush == InitPush /\ [][NextPush]_vars

(***************************************************************************)
(* The extraction of the file paths of a torrent group.  A text is a       *)
(* sequence of characters; "&amp;" and "&#1;" stand for these character    *)
(* references and "LRM" for U+200E.  A torrent is [kind, path]: kind       *)
(* "missing" has no filePath key, "None" has the value None.               *)
(***************************************************************************)
notTok == <<syncVars, apiVars, match, db, scan, web, tagc, push>>

Chars == {"A", "&amp;", "&#1;", "LRM"}

Texts == UNION {[1..n -> Chars] : n \in 0..MaxText}

Torrents ==
    {[kind |-> "missing", path |-> <<>>], [kind |-> "None", path |-> <<>>]}
       \cup {[kind |-> "str", path |-> p] : p \in Texts}

Responses == UNION {[1..n -> Torrents] : n \in 0..MaxTorrents}

\* html.unescape: "&amp;" is "&"; the reference to the invalid code point
\* 1 is replaced by the empty string.
HtmlUnescape(text) ==
    LET kept == SelectSeq(text, LAMBDA c : c # "&#1;") IN
    [i \in 1..Len(kept) |-> IF kept[i] = "&amp;" THEN "&" ELSE kept[i]]

\* _clean_text: html.unescape, then the directional marks are removed
CleanText(text) == SelectSeq(HtmlUnescape(text), LAMBDA c : c # "LRM")

\* `if path`: neither None nor the empty string
Truthy(t) == t.kind = "str" /\ t.path # <<>>

\* RedactedAPI.get_file_paths_from_torrent_group: torrent.get("filePath")
\* of every torrent, the truthy ones unescaped
GetFilePathsFromTorrentGroup(torrents) ==
    LET paths == SelectSeq(torrents, Truthy) IN
    [i \in 1..Len(paths) |-> HtmlUnescape(paths[i].path)]

\* GazelleMapper._map_torrent_group_file_paths: the filePath of the
\* torrents that have the key, the truthy ones cleaned
MapTorrentGroupFilePaths(torrents) ==
    LET present == SelectSeq(torrents, LAMBDA t : t.kind # "missing")
        paths == SelectSeq(present, Truthy) IN
    [i \in 1..Len(paths) |-> CleanText(paths[i].path)]

TokLegacy ==
    /\ extract.fn = "none"
    /\ extract' = [extract EXCEPT
                      !.fn = "legacy",
                      !.result = GetFilePathsFromTorrentGroup(extract.torrents)]
    /\ UNCHANGED notTok

TokMapper ==
    /\ extract.fn = "none"
    /\ extract' = [extract EXCEPT
                      !.fn = "mapper",
                      !.result = MapTorrentGroupFilePaths(extract.torrents)]
    /\ UNCHANGED notTok

InitTok ==
    /\ SyncAtRest
    /\ ApiAtRest
    /\ MatchAtRest
    /\ DbAtRest
    /\ ScanAtRest
    /\ WebAtRest
    /\ TagcAtRest
    /\ PushAtRest
    /\ \E r \in Responses : extract = [IdleTok EXCEPT !.torrents = r]

NextTok ==
    \/ TokLegacy
    \/ TokMapper

SpecTok == InitTok /\ [][NextTok]_vars

(***************************************************************************)
(* Properties.                                                             *)
(***************************************************************************)
\* The sync in progress has called neither create_collection nor
\* add_items_to_collection and has written no cache file: collections and
\* cache files are as they were at its entry.
NoMutation ==
    /\ run.mut = 0
    /\ run.wr = 0
    /\ plex = run.plex0
    /\ collageCsv = run.collage0
    /\ bookmarksCsv = run.bookmarks0

\* The collection the sync in progress works on.
RunKey == IF run.existing # NoKey THEN run.existing ELSE run.rk

\* The cache file of the sync in progress as it was at the entry of the sync.
Store0 == IF run.bm THEN run.bookmarks0 ELSE run.collage0

\* The sync that ran just before the one in progress, in the same loop.
Prev == batch.outcomes[Len(batch.outcomes)]

\* The sync in progress has ended and follows, in the same command (so
\* with the remote lists and the library unchanged), a sync of the same list.
Rerun ==
    /\ run.pc = "done"
    /\ batch.outcomes # <<>>
    /\ Prev.cid = run.cid

\* No file path has more than one candidate album, so no sync prompts.
NoPrompt == ~({12, 13} \subseteq Range(albumData))

\* C1: Idempotence.  When a sync of a list has completed (here: it created
\* or updated the collection and every new id resolved) and the sync is
\* run again, confirmed or forced, with the remote membership unchanged
\* and no fetch failure, prompt or commit failure in the way, the second
\* run ends UP_TO_DATE, calls neither create_collection nor
\* add_items_to_collection and leaves the stored ids unchanged.
C1_SecondRunUpToDate ==
    (/\ Rerun
     /\ Prev.status \in {"CREATED", "UPDATED"}
     /\ Prev.allResolved
     /\ run.confirm # "no"
     /\ NoPrompt
     /\ ~run.memFail /\ ~run.grpFail /\ ~run.raised)
    => (run.status = "UP_TO_DATE" /\ NoMutation)

\* C2: Monotonic membership.  When a sync ends without error, the ids the
\* store reads back for its collection are a superset of the ids it read
\* back for that collection at the entry of the sync.
C2_MonotonicMembership ==
    (run.pc = "done" /\ ~run.raised /\ run.status # "FAILED")
    => StoredGroupIds(Store0, run.bm, RunKey)
          \subseteq StoredGroupIds(Store(run.bm), run.bm, RunKey)

\* A sync updated its collection and the ids read back for it grew.
C2_Witness ==
    /\ run.pc = "done"
    /\ run.status = "UPDATED"
    /\ StoredGroupIds(Store0, run.bm, RunKey) # {}
    /\ StoredGroupIds(Store0, run.bm, RunKey)
          # StoredGroupIds(Store(run.bm), run.bm, RunKey)

\* C3: In every reachable state each id the store holds for a collection
\* is an id whose albums a sync had found and handed to create_collection
\* or add_items_to_collection for that collection before the id was stored.
C3_StoredIdsWereApplied ==
    \A k \in CollectionKeys :
       /\ StoredGroupIds(collageCsv, FALSE, k) \subseteq applied[k]
       /\ StoredGroupIds(bookmarksCsv, TRUE, k) \subseteq applied[k]

\* C4: An id that resolved to no album in an earlier sync of a list and
\* resolves in a later sync that ends UPDATED has its albums in the
\* collection and is among the ids the store then reads back for it.
C4_RetriedIdIsStored ==
    (run.pc = "done" /\ run.status = "UPDATED")
    => \A g \in run.processed :
          <<ListId(run), g>> \in zeroMatch
          => g \in StoredGroupIds(Store(run.bm), run.bm, run.rk)

\* C5: When the membership fetch (get_collage / get_bookmarks) fails, the
\* run ends FAILED, has called neither create_collection nor
\* add_items_to_collection and has written no cache file.
C5_MembershipFetchFailure ==
    run.memFail => (run.pc = "done" /\ run.status = "FAILED" /\ NoMutation)

\* The bookmark fetch failed although the bookmark collection exists.
C5_Witness ==
    /\ run.memFail
    /\ run.bm
    /\ run.pc = "done"
    /\ GetCollectionByName(plex, BookmarksName(Site)) # NoKey

C7_ConfirmationFirst ==
    /\ run.pc = "confirm"
       => (/\ run.existing # NoKey /\ ~run.force
           /\ run.fetched = {} /\ ~run.grpFail /\ NoMutation)
    /\ run.confirm # "none" => (run.existing # NoKey /\ ~run.force)
    /\ (/\ run.existing # NoKey /\ ~run.force
        /\ \/ run.pc \in {"groups", "apply", "commit"}
           \/ run.fetched # {} \/ run.grpFail
           \/ run.mut > 0 \/ run.wr > 0)
       => run.confirm = "yes"
    /\ run.confirm = "no"
       => (/\ run.pc = "done" /\ run.status = "SKIPPED"
           /\ run.fetched = {} /\ ~run.grpFail /\ NoMutation)

\* The confirmation was declined for a collection that lacks remote ids.
C7_Witness ==
    /\ run.status = "SKIPPED"
    /\ run.confirm = "no"
    /\ run.remoteIds \ run.cached # {}

\* C8: When there are new ids and none resolves to an album, the run ends
\* NO_MATCH (not FAILED): neither create_collection nor
\* add_items_to_collection was called and no cache file was written.
C8_NoMatch ==
    /\ run.status = "NO_MATCH" => (~run.raised /\ NoMutation)
    /\ (/\ run.pc = "done" /\ run.new # {}
        /\ ~run.grpFail /\ run.processed = {})
       => run.status = "NO_MATCH"

\* A sync of an existing collection fetched its new ids and matched none.
C8_Witness ==
    /\ run.status = "NO_MATCH"
    /\ run.existing # NoKey
    /\ run.fetched # {}

\* C9: Recovery after a failed commit.  When the commit of a sync failed
\* after its collection was created or extended and the same sync is run
\* again (remote list and library unchanged, no prompt involved) and ends
\* without error, the store reads back for the collection the ids it would
\* have read back had the first commit succeeded, and there is one
\* collection of the name.
C9_RecoveryAfterFailedCommit ==
    (/\ Rerun
     /\ Prev.commitFail
     /\ NoPrompt
     /\ ~run.raised
     /\ run.status \in {"CREATED", "UPDATED", "UP_TO_DATE", "NO_MATCH"})
    => (/\ StoredGroupIds(Store(run.bm), run.bm, Prev.rk) = Prev.expect
        /\ Cardinality(WithName(plex, run.name)) = 1)

\* C10: Bulk reconciliation runs the sync of every stored collection once
\* with force_update, whatever the syncs before it ended with, and has an
\* outcome for every one.
C10_BulkRunsEveryGrouping ==
    (batch.ended /\ batch.kind \in {"service", "cli"})
    => (/\ Len(batch.outcomes) = batch.n
        /\ \A i \in 1..Len(batch.outcomes) : batch.outcomes[i].force)

(***************************************************************************)
(* GazelleAPI: rate limit and retry.                                       *)
(***************************************************************************)
SentBy(c) == {i \in 1..Len(sent) : sent[i].client = c}

SentIn(S, t) == {i \in S : sent[i].t >= t /\ sent[i].t <= t + Interval}

\* ceil(k / Limit) windows are needed for k calls
WindowsFor(k) == (k + Limit - 1) \div Limit

Failed3 == Len(call.outcomes) = StopAfterAttempt
           /\ \A i \in 1..StopAfterAttempt : IsRequestException(call.outcomes[i])

\* C11: on one client no window of length Interval holds more than Limit
\* HTTP requests, the retried attempts included, and k requests of one
\* client span at least (ceil(k / Limit) - 1) intervals (20 calls at 5 per
\* second: 3 seconds).
C11_RateLimitPerClient ==
    \A c \in 1..Len(limiter) :
        /\ \A t \in 0..MaxTime : Cardinality(SentIn(SentBy(c), t)) <= Limit
        /\ SentBy(c) # {} =>
              LET first == sent[Min(SentBy(c))].t IN
              \A i \in SentBy(c) :
                  sent[i].t - first
                     >= (WindowsFor(Cardinality({j \in SentBy(c) : j <= i})) - 1)
                        * Interval

\* The limiter refused a retried attempt of a client that had already
\* filled two windows; the loop sleeps before it asks again.
C11_Witness ==
    /\ call.pc = "sleep"
    /\ call.attempt > 1
    /\ Cardinality(SentBy(Len(limiter))) >= 2 * Limit

\* C12: over all the clients of the site together no window of length
\* Interval holds more than Limit HTTP requests.
C12_RateLimitPerSite ==
    \A t \in 0..MaxTime : Cardinality(SentIn(1..Len(sent), t)) <= Limit

\* C13: api_call makes at most StopAfterAttempt attempts, WaitFixed seconds
\* apart; when the third attempt succeeds the JSON is returned; when all
\* three fail there is no fourth attempt and the caller receives the
\* network error itself.
C13_RetryThenNetworkError ==
    call.pc = "done" =>
       /\ Len(call.times) <= StopAfterAttempt
       /\ \A i \in 2..Len(call.times) :
             call.times[i] - call.times[i - 1] >= WaitFixed
       /\ call.outcomes = <<"ConnectionError", "ConnectionError", "ok">>
             => call.result = "json"
       /\ Failed3 => call.result = call.outcomes[StopAfterAttempt]

\* C14: a response with a 4xx/5xx status is not retried: the call makes
\* exactly one attempt and the HTTP error reaches the caller.
C14_HttpErrorNotRetried ==
    (call.pc # "idle" /\ Len(call.outcomes) >= 1
        /\ call.outcomes[1] = "HTTPError") =>
       /\ call.pc = "done"
       /\ Len(call.outcomes) = 1
       /\ call.result = "HTTPError"

(***************************************************************************)
(* The matcher.                                                            *)
(***************************************************************************)
SegmentMatches(tok, albums) ==
    {i \in 1..Len(albums) :
        \E k \in 1..Len(Normpath(albums[i])) : Normpath(albums[i])[k] = tok}

\* C15: the candidates of get_rating_keys(token) are exactly the albums
\* whose normalised path has a segment equal to the token; an album of
\* which the token is only a substring of a segment is no candidate; a
\* single candidate is returned without a prompt.  Stated for both
\* PlexManager classes of the source.
C15_SegmentMatch ==
    LET want == SegmentMatches(match.token, match.albums) IN
    /\ match.pc \in {"returned", "prompt"} =>
          /\ Range(match.keys) = want
          /\ Cardinality(want) = 1 =>
                match.pc = "returned" /\ Range(match.result) = want
    /\ match.playlist # "none" => Range(match.playlist) = want

\* C16: a sync that runs without an operator (force_update) never waits in
\* click.prompt: several matches are settled by a fixed policy.
C16_NeverPrompts == ~(match.force /\ match.pc = "prompt")

(***************************************************************************)
(* The sqlite store of the collections.                                    *)
(***************************************************************************)
Returned(name) == db.op.name = name /\ db.op.pc = "returned"

\* C17: when insert_or_update_collage_collection(c) or
\* insert_or_update_bookmark_collection(c) has returned, the get operation
\* for c.id yields exactly the group ids of c.torrent_groups, whatever was
\* stored for c.id before.
C17_UpsertReplacesSet ==
    Returned("upsert") =>
        GetCollectionIds(db.work, db.op.kind, db.op.rk) = db.op.gids

\* An upsert returned that dropped an id stored before and added another.
C17_Witness ==
    /\ Returned("upsert")
    /\ GroupIdsFor(db.before, db.op.rk) \ db.op.gids # {}
    /\ db.op.gids \ GroupIdsFor(db.before, db.op.rk) # {}

\* C18: whatever interrupts an upsert or a delete, the committed state of
\* every grouping is a complete state: the one committed before, or the
\* whole effect of an operation on it.
C18_AtomicWrites ==
    \A rk \in DbKeys : GroupingState(db.disk, rk) \in db.complete[rk]

\* What a reset of the groupings of one kind must leave of the other kind:
\* its groupings and all their membership rows.
ResetKeepsOther(kind) ==
    /\ KeysOf(db.work, kind) = {}
    /\ KeysOf(db.work, Other(kind)) = KeysOf(db.before, Other(kind))
    /\ \A rk \in KeysOf(db.before, Other(kind)) :
          GroupIdsFor(db.work, rk) = GroupIdsFor(db.before, rk)

C20_UnscannedForSite ==
    scan.site \in Sites =>
        /\ Range(scan.listed) =
              {a \in DOMAIN scan.albums :
                  ~\E m \in scan.atCall : m[1] = a /\ m[3] = scan.site}
        /\ NoRepeats(scan.listed)
        /\ OrderedByAddedAtDesc(scan.listed, scan.albums)

\* C27: CollageCollectionCache.  When a sync has saved its collage
\* collection with save_collection(rk, name, site, collage id, ids) and no
\* I/O error, get_collection(rk) returns exactly those ids, also when an
\* entry for rk existed before; and in every reachable state the cache
\* holds at most one row per rating key.
C27_SaveCollectionThenGet ==
    /\ (/\ run.pc = "done"
        /\ ~run.bm
        /\ run.status \in {"CREATED", "UPDATED"})
       => /\ GetCollection(collageCsv, run.rk) # <<>>
          /\ GetCollection(collageCsv, run.rk)[1].groups = run.groups
    /\ \A i, j \in 1..Len(collageCsv) :
          collageCsv[i].id = collageCsv[j].id => i = j

\* C28: BookmarksCollectionCache.  A save_bookmarks for a rating key the
\* cache already holds, with no I/O error, completes, replaces the ids of
\* that entry by the ones passed, and leaves every other entry as it was.
C28_SaveBookmarksUpdates ==
    [][(/\ run.pc = "commit"
        /\ run.bm
        /\ GetBookmark(bookmarksCsv, run.rk) # <<>>
        /\ nEnv' = nEnv
        /\ run'.pc = "done")
       => /\ run'.status # "FAILED"
          /\ GetBookmark(bookmarksCsv', run.rk) # <<>>
          /\ GetBookmark(bookmarksCsv', run.rk)[1].groups = run.groups
          /\ \A k \in CollectionKeys \ {run.rk} :
                GetBookmark(bookmarksCsv', k) = GetBookmark(bookmarksCsv, k)]_vars

\* C25: After any sequence of syncs, also when a collection was deleted
\* in the library and a later sync created it again, the store holds at
\* most one collage collection per site and collage id.
C25_OneGroupingPerList ==
    \A r1, r2 \in web.store :
       (r1.site = r2.site /\ r1.ext = r2.ext) => r1 = r2

\* C29: When the tasks have finished, every group id a sync committed for
\* a rating key is among the ids the store holds for that rating key.
C29_NoLostUpdate ==
    (\A t \in WebTasks : web.task[t].pc \in {"idle", "done"})
    => \A p \in web.committed : p[2] \in WebStoredIds(web.store, p[1])

\* C21: For every non-empty list of requested tags, the rating keys
\* create_collection_from_tags obtains from get_rating_keys_by_tags(tags,
\* site) are exactly those that have a mapping of that site whose tags
\* contain every requested tag.
C21_TagsIntersectionForSite ==
    (tagc.call.pc # "idle" /\ tagc.call.tags # <<>>)
    => tagc.call.matching =
          {rk \in TagKeys :
              \E r \in tagc.call.atCall :
                 /\ r.rk = rk
                 /\ r.site = tagc.call.site
                 /\ Range(tagc.call.tags) \subseteq r.tags}

\* C30: When create_collection_from_tags has returned False, a collection
\* that had the requested name before the call has the items it had
\* before the call.
C30_FalseLeavesCollection ==
    (tagc.call.pc = "done" /\ tagc.call.result = "False")
    => tagc.coll = tagc.call.coll0

\* C22: Every add_to_collage call of a push passes a non-empty set of
\* group ids, each mapped for the site of the list from a current member
\* of the collection and absent from the membership of the collage that
\* the same push fetched.
C22_PushWritesDifference ==
    \A i \in 1..Len(push.writes) :
       LET w == push.writes[i] IN
       /\ w.ids # {}
       /\ w.ids \subseteq w.mapped
       /\ w.fetched
       /\ w.ids \cap w.fetchedIds = {}

\* C23: Every add_to_collage call of a push is made after get_user_info
\* gave a user id and get_user_collages of that user held the list, both
\* in that push.
C23_PushChecksOwnership ==
    \A i \in 1..Len(push.writes) :
       push.writes[i].user /\ push.writes[i].owner

\* C24: The command line push makes no add_to_collage call for a list
\* whose collection has a member without a mapping for the site of the
\* list.
C24_PushRequiresMappings ==
    \A i \in 1..Len(push.writes) :
       push.writes[i].path = "cli" => push.writes[i].unmapped = {}

\* C26: The file paths extracted from a torrent group response are, in
\* response order, the decoded filePath values of the torrents whose
\* filePath is present, not None and not empty, one entry per such
\* torrent, and no entry of the result is empty.
C26_FilePathsExtracted ==
    extract.fn # "none"
    => LET kept == SelectSeq(extract.torrents, Truthy) IN
       /\ Len(extract.result) = Len(kept)
       /\ \A i \in 1..Len(kept) :
             extract.result[i] = IF extract.fn = "legacy"
                             THEN HtmlUnescape(kept[i].path)
                             ELSE CleanText(kept[i].path)
       /\ \A i \in 1..Len(extract.result) : extract.result[i] # <<>>

====
